---- MODULE Spec2Model ----
(***************************************************************************)
(* Sync orchestration and retry queue of the Matrix ETL tool.              *)
(*   MessageQueueImpl   src/src/server/types/message-queue.ts              *)
(*   SyncManager        src/src/server/matrix/sync.ts                      *)
(* One step of the model is one run-to-completion segment of the Node      *)
(* event loop: the code between two awaits on real I/O (store, crypto,     *)
(* timers).  The queue methods are async but contain no I/O, so a call to  *)
(* them is part of the segment that makes it.                              *)
(***************************************************************************)
EXTENDS Integers, Sequences, FiniteSets, Bags, TLC

(* ---------------------------- bounds ----------------------------------- *)
NumRooms == 2          \* rooms returned by client.getRooms()
MaxStarts == 2         \* startSync() invocations
MaxStops == 1          \* stopSync() invocations
MaxDeliveries == 2     \* timeline events emitted by the client
MaxRetryCount == 4     \* cap on a retry_decrypt item's counter
batchSize == 2         \* options.batchSize
MaxQueueCalls == 4     \* enqueue, dequeue, retryFailed, clearFailed and clear calls of a direct caller
MaxErrors == 2         \* errors with a decryption/crypto text that are reported
MaxRecoverCalls == 2   \* recoverKeys() invocations

(* ----------------------- program constants ----------------------------- *)
maxRetries == 3
retryDelays == <<1000, 5000, 30000>>

Rooms == 1..NumRooms
\* joined members per room (the cold-start scenario: 5 and 0, then 1, 2, ...)
JoinedMembers(r) == IF r = 1 THEN 5 ELSE r - 2
\* event 1 is a plain event, event 2 an encrypted one
EventIds == {1, 2}
isEncrypted(e) == e = 2
RoomOf(e) == 1

NoToken == "null"
Token == "t1"

Drain == 0             \* the loop of drainMessageQueue
Procs == 1..MaxStarts  \* loops of startMessageQueueProcessor
KeyTask == MaxStarts + 1   \* processPendingEvents / handleRoomKeyUpdate
Workers == {Drain, KeyTask} \cup Procs

Min(a, b) == IF a < b THEN a ELSE b

VARIABLES
    \* MessageQueueImpl
    queue, processing, failed, retrying, timers,
    \* SyncManager fields
    syncState, syncError, processingQueue, lastSyncToken,
    \* relational store
    storedToken, messages, syncErrors, roomUpserts, participantUpserts,
    \* protocol client and crypto manager
    \* (responded: the client has received a sync response and holds a
    \* stream position)
    listeners, syncCalls, streaming, cryptoInitialized, responded,
    \* positions of the asynchronous operations
    startPc, phase, stopPc, pc, msgs, rds, errs, handlers,
    \* history
    delivered, deliveries, lastContent, passed, stopItems, stops,
    \* a direct caller of the queue: the batch its last dequeue returned, the
    \* requeue calls made per event id, the calls made
    held, requeued, qcalls,
    \* errors whose text has the crypto signature, recoverKeys calls and
    \* retryImmediately calls made by handleSyncError
    cryptoErrors, recoveries, errorRetries,
    \* the caller of each startSync and the error it threw; positions of
    \* resetSync and resumeSync; the error log when resetSync was called
    owner, startErr, resetPc, resumePc, resetLog,
    \* CryptoManager: status.backupStatus, the restore calls made on the SDK,
    \* the last recoverKeys call with its outcome, and the calls made
    backupStatus, restores, recoverCall, recoverCalls,
    \* what the step just taken did (a processEvent / decryptEvent outcome, a
    \* stream state, a queue call), "none" for every other step
    lastStep

qVars == <<queue, processing, failed, retrying, timers>>
mgrVars == <<syncState, syncError, processingQueue, lastSyncToken>>
storeVars == <<storedToken, messages, syncErrors, roomUpserts, participantUpserts>>
clientVars == <<listeners, syncCalls, streaming, cryptoInitialized, responded>>
startVars == <<startPc, phase>>
workVars == <<pc, msgs, rds, errs>>
histVars == <<delivered, deliveries, lastContent, passed, stopItems, stops>>
apiVars == <<held, requeued, qcalls>>
keyVars == <<backupStatus, restores, recoverCall, recoverCalls>>
errVars == <<cryptoErrors, recoveries, errorRetries>>
ctlVars == <<owner, startErr, resetPc, resumePc, resetLog>>
vars == <<qVars, mgrVars, storeVars, clientVars, startVars, stopPc, workVars,
          handlers, histVars, apiVars, keyVars, errVars, ctlVars, lastStep>>

(* ------------------------- MessageQueueImpl ---------------------------- *)
\* A QueueItem.  retryCount 0 stands for both undefined and 0 (the code reads
\* it as `item.retryCount || 0` and by truthiness).  plain is TRUE for an
\* event that is an object literal and so has no getId method.
QueueItem(id, type, retryCount, content, plain, error) ==
    [id |-> id, type |-> type, retryCount |-> retryCount, content |-> content,
     plain |-> plain, error |-> error]

getItemKey(item) == <<item.id, item.type>>

\* A JS Map in insertion order, as the sequence of its values
MapHas(m, k) == \E i \in 1..Len(m) : getItemKey(m[i]) = k
MapSet(m, item) ==
    IF MapHas(m, getItemKey(item))
    THEN [i \in 1..Len(m) |-> IF getItemKey(m[i]) = getItemKey(item) THEN item ELSE m[i]]
    ELSE Append(m, item)
MapDelete(m, k) == SelectSeq(m, LAMBDA x : getItemKey(x) # k)
MapKeys(m) == {getItemKey(m[i]) : i \in 1..Len(m)}

\* the queue object as one value
MQ == [queue |-> queue, processing |-> processing, failed |-> failed,
       retrying |-> retrying, timers |-> timers]
SetMQ(m) ==
    /\ queue' = m.queue
    /\ processing' = m.processing
    /\ failed' = m.failed
    /\ retrying' = m.retrying
    /\ timers' = m.timers

\* the delay indexed by the count itself
RetryDelayByCount(retryCount) == retryDelays[Min(retryCount, Len(retryDelays) - 1) + 1]

RetryDelay(retryCount) == retryDelays[Min(retryCount - 1, Len(retryDelays) - 1) + 1]

\* enqueue throws (getItemKey) when the event has no getId method
enqueueThrows(item) == item.plain

\* enqueue without the look at the processing lane
enqueueUnchecked(m, item) ==
    IF enqueueThrows(item) THEN m
    ELSE IF item.type = "retry"
    THEN LET retryCount == item.retryCount + 1 IN
         IF retryCount <= maxRetries
         THEN LET it == [item EXCEPT !.retryCount = retryCount] IN
              [m EXCEPT !.retrying = MapSet(@, it),
                        !.timers = @ (+) SetToBag({[item |-> it, delay |-> RetryDelay(retryCount)]})]
         ELSE [m EXCEPT !.failed = MapSet(@, item)]
    ELSE [m EXCEPT !.queue = MapSet(@, item)]

\* enqueue with the limit compared one short
enqueueStrictLimit(m, item) ==
    IF enqueueThrows(item) THEN m
    ELSE IF MapHas(m.processing, getItemKey(item)) THEN m
    ELSE IF item.type = "retry"
    THEN LET retryCount == item.retryCount + 1 IN
         IF retryCount < maxRetries
         THEN LET it == [item EXCEPT !.retryCount = retryCount] IN
              [m EXCEPT !.retrying = MapSet(@, it),
                        !.timers = @ (+) SetToBag({[item |-> it, delay |-> RetryDelay(retryCount)]})]
         ELSE [m EXCEPT !.failed = MapSet(@, item)]
    ELSE [m EXCEPT !.queue = MapSet(@, item)]

enqueue(m, item) ==
    IF enqueueThrows(item) THEN m
    ELSE IF MapHas(m.processing, getItemKey(item)) THEN m
    ELSE IF item.type = "retry"
    THEN LET retryCount == item.retryCount + 1 IN
         IF retryCount <= maxRetries
         THEN LET it == [item EXCEPT !.retryCount = retryCount] IN
              [m EXCEPT !.retrying = MapSet(@, it),
                        !.timers = @ (+) SetToBag({[item |-> it, delay |-> RetryDelay(retryCount)]})]
         ELSE [m EXCEPT !.failed = MapSet(@, item)]
    ELSE [m EXCEPT !.queue = MapSet(@, item)]

RECURSIVE enqueueAll(_, _)
enqueueAll(m, items) ==
    IF items = <<>> THEN m ELSE enqueueAll(enqueue(m, Head(items)), Tail(items))

Take(s, n) == SubSeq(s, 1, Min(n, Len(s)))

\* a batch taken in insertion order
dequeueBatchInOrder(m, b) == Take(m.queue, b)

\* the batch dequeue(b) returns
dequeueBatch(m, b) ==
    LET priorityItems == Take(SelectSeq(m.queue, LAMBDA x : x.retryCount = 0), b)
        retryItems == Take(SelectSeq(m.queue, LAMBDA x : x.retryCount # 0), b - Len(priorityItems))
    IN  priorityItems \o retryItems

RECURSIVE MapSetAll(_, _)
MapSetAll(m, items) ==
    IF items = <<>> THEN m ELSE MapSetAll(MapSet(m, Head(items)), Tail(items))

dequeue(m, b) ==
    LET batch == dequeueBatch(m, b)
        keys == {getItemKey(batch[i]) : i \in 1..Len(batch)}
    IN  [m EXCEPT !.queue = SelectSeq(@, LAMBDA x : getItemKey(x) \notin keys),
                  !.processing = MapSetAll(@, batch)]

getPending(m, type) ==
    SelectSeq(m.queue, LAMBDA x : x.type = type)
        \o SelectSeq(m.processing, LAMBDA x : x.type = type)
        \o SelectSeq(m.retrying, LAMBDA x : x.type = type)

size(m) == Len(m.queue) + Len(m.processing) + Len(m.retrying)

RECURSIVE requeue(_, _)
requeue(m, items) ==
    IF items = <<>> THEN m
    ELSE LET item == Head(items)
             m1 == [m EXCEPT !.processing = MapDelete(@, getItemKey(item))]
         IN  requeue(enqueue(m1, [item EXCEPT !.type = "retry"]), Tail(items))

\* the loop of retryFailed over the failed items
RECURSIVE retryFailedItems(_, _)
retryFailedItems(m, items) ==
    IF items = <<>> THEN m
    ELSE retryFailedItems(enqueue(m, [Head(items) EXCEPT !.retryCount = 0, !.type = "retry"]),
                          Tail(items))

retryFailed(m) == [retryFailedItems(m, m.failed) EXCEPT !.failed = <<>>]
\* the number retryFailed returns
retryFailedResult(m) == Len(m.failed)

\* the counts getStatus returns
getStatus(m) ==
    [pending |-> Len(m.queue), processing |-> Len(m.processing), failed |-> Len(m.failed),
     retrying |-> Len(m.retrying)]

getFailedItems(m) == m.failed
clearFailed(m) == [m EXCEPT !.failed = <<>>]
\* clear empties the four lanes; scheduled timers are not cancelled
clear(m) == [m EXCEPT !.queue = <<>>, !.processing = <<>>, !.failed = <<>>, !.retrying = <<>>]

\* a callback that also takes the key out of failed
timerFireDropsFailed(m, t) ==
    [m EXCEPT !.timers = @ (-) SetToBag({t}),
              !.retrying = MapDelete(@, getItemKey(t.item)),
              !.failed = MapDelete(@, getItemKey(t.item)),
              !.queue = MapSet(@, t.item)]

\* the setTimeout callback of enqueue
timerFire(m, t) ==
    [m EXCEPT !.timers = @ (-) SetToBag({t}),
              !.retrying = MapDelete(@, getItemKey(t.item)),
              !.queue = MapSet(@, t.item)]

(* ------------------ the event loop and the workers --------------------- *)
WorkFinished(w) == pc[w] = "work" /\ msgs[w] = <<>> /\ rds[w] = <<>> /\ errs[w] = <<>>
AtLoopHead(w) == pc[w] = "run" \/ WorkFinished(w)

\* drainMessageQueue with nothing to dequeue and size() > 0 awaits only
\* resolved promises: it loops in the microtask queue and no timer, I/O
\* completion or event callback runs while it does.
Spinning == AtLoopHead(Drain) /\ queue = <<>> /\ size(MQ) > 0
Yielding == ~Spinning

OfType(batch, type) == SelectSeq(batch, LAMBDA x : x.type = type)
SeqKeys(s) == {getItemKey(s[i]) : i \in 1..Len(s)}

\* groupMessagesByType followed by the three processors of Promise.all;
\* a group no processor takes (type retry) is passed to nothing
StartBatch(w, batch) ==
    /\ msgs' = [msgs EXCEPT ![w] = OfType(batch, "message")]
    /\ rds' = [rds EXCEPT ![w] = OfType(batch, "retry_decrypt")]
    /\ errs' = [errs EXCEPT ![w] = OfType(batch, "error")]
    /\ passed' = IF stops = 0 THEN passed
                  ELSE passed \cup SeqKeys(msgs'[w]) \cup SeqKeys(rds'[w]) \cup SeqKeys(errs'[w])

(* --------------------------- SyncManager ------------------------------- *)
\* the characters of the error messages that occur
Text(message) ==
    CASE message = "Crypto manager must be initialized before starting sync" ->
           <<"C", "r", "y", "p", "t", "o", " ", "m", "a", "n", "a", "g", "e", "r", " ", "m", "u", "s", "t", " ", "b", "e", " ", "i", "n", "i", "t", "i", "a", "l", "i", "z", "e", "d", " ", "b", "e", "f", "o", "r", "e", " ", "s", "t", "a", "r", "t", "i", "n", "g", " ", "s", "y", "n", "c">>
      [] message = "Failed to sync room" ->
           <<"F", "a", "i", "l", "e", "d", " ", "t", "o", " ", "s", "y", "n", "c", " ", "r", "o", "o", "m">>
      [] message = "Failed to sync participants batch" ->
           <<"F", "a", "i", "l", "e", "d", " ", "t", "o", " ", "s", "y", "n", "c", " ", "p", "a", "r", "t", "i", "c", "i", "p", "a", "n", "t", "s", " ", "b", "a", "t", "c", "h">>
      [] message = "Unknown sync error" ->
           <<"U", "n", "k", "n", "o", "w", "n", " ", "s", "y", "n", "c", " ", "e", "r", "r", "o", "r">>
      [] message = "Failed to decrypt event" ->
           <<"F", "a", "i", "l", "e", "d", " ", "t", "o", " ", "d", "e", "c", "r", "y", "p", "t", " ", "e", "v", "e", "n", "t">>
      [] message = "crypto store is closed" ->
           <<"c", "r", "y", "p", "t", "o", " ", "s", "t", "o", "r", "e", " ", "i", "s", " ", "c", "l", "o", "s", "e", "d">>
      [] message = "Connection timed out" ->
           <<"C", "o", "n", "n", "e", "c", "t", "i", "o", "n", " ", "t", "i", "m", "e", "d", " ", "o", "u", "t">>
      [] OTHER -> <<>>

\* String.prototype.includes
includes(text, pattern) ==
    \E k \in 0..(Len(text) - Len(pattern)) : SubSeq(text, k + 1, k + Len(pattern)) = pattern

\* a test that leaves out the first letter of each word
isCryptoErrorLoose(message) ==
    \/ includes(Text(message), <<"e", "c", "r", "y", "p", "t">>)
    \/ includes(Text(message), <<"r", "y", "p", "t", "o">>)

\* the test of handleSyncError on the error message
isCryptoError(message) ==
    \/ includes(Text(message), <<"d", "e", "c", "r", "y", "p", "t">>)
    \/ includes(Text(message), <<"c", "r", "y", "p", "t", "o">>)

\* the errors syncApi.sync(), retryImmediately() and the stream report
StreamErrors == {"Failed to decrypt event", "crypto store is closed", "Connection timed out"}

updateSyncStatus(state, error) ==
    /\ syncState' = state
    /\ syncError' = error

\* handleSyncError run by n callers for one error; recovered tells whether
\* cryptoManager.recoverKeys() resolves or throws
handleSyncErrors(message, recovered, n) ==
    /\ updateSyncStatus("error", message)
    /\ IF isCryptoError(message)
       THEN /\ recoveries' = recoveries + n
            /\ errorRetries' = IF recovered THEN errorRetries + n ELSE errorRetries
       ELSE UNCHANGED <<recoveries, errorRetries>>

handleSyncError(message, recovered) == handleSyncErrors(message, recovered, 1)

\* an error is thrown or reported: one more occurrence when its text has the
\* signature
Occurs(message) ==
    cryptoErrors' = IF isCryptoError(message) THEN cryptoErrors + 1 ELSE cryptoErrors

\* next free loop slot for startMessageQueueProcessor
FreeProcs == {w \in Procs : pc[w] = "idle"}

\* the catch of startSync: handleSyncError, then the error is thrown on
startSyncThrows(i, message, recovered) ==
    /\ startPc' = [startPc EXCEPT ![i] = "failed"]
    /\ startErr' = [startErr EXCEPT ![i] = message]
    /\ Occurs(message)
    /\ handleSyncError(message, recovered)

\* startSync called by who, up to the await of loadSavedSync
startSyncBegin(i, who, recovered) ==
    /\ startPc[i] = "idle"
    /\ \A j \in 1..(i - 1) : startPc[j] # "idle"
    /\ owner' = [owner EXCEPT ![i] = who]
    /\ IF ~cryptoInitialized
       THEN startSyncThrows(i, "Crypto manager must be initialized before starting sync", recovered)
       ELSE /\ startPc' = [startPc EXCEPT ![i] = "load"]
            /\ UNCHANGED <<syncState, syncError, errVars, startErr>>

\* startSync called from outside
StartCall(i) ==
    /\ Yielding
    /\ lastStep' = "none"
    /\ UNCHANGED <<apiVars, keyVars, resetPc, resumePc, resetLog>>
    /\ \E recovered \in BOOLEAN : startSyncBegin(i, "api", recovered)
    /\ UNCHANGED <<qVars, processingQueue, lastSyncToken, storeVars, clientVars, phase,
                   stopPc, workVars, handlers, delivered, deliveries, lastContent, passed, stopItems, stops>>

\* a loop that stops one room short
initialSetupRoomsShort(token) == Rooms \ {NumRooms}

\* the rooms initialSetup walks: every room of client.getRooms(), whatever
\* lastSyncToken holds
initialSetupRooms(token) == Rooms

\* loadSavedSync returned (a failed read gives null); initialSetup starts the
\* first batch of room tasks
StartLoaded(i, readOk) ==
    /\ Yielding
    /\ lastStep' = "none"
    /\ UNCHANGED <<apiVars, keyVars, errVars, ctlVars>>
    /\ startPc[i] = "load"
    /\ lastSyncToken' = IF readOk THEN storedToken ELSE NoToken
    /\ startPc' = [startPc EXCEPT ![i] = "backfill"]
    /\ phase' = [phase EXCEPT ![i] = [r \in Rooms |->
                    IF r \in initialSetupRooms(lastSyncToken') THEN "room" ELSE "done"]]
    /\ UNCHANGED <<qVars, syncState, syncError, processingQueue, storeVars, clientVars,
                   stopPc, workVars, handlers, histVars>>

\* rows one syncParticipants call upserts for a room
participantRows(r) == JoinedMembers(r)

\* syncRoom: the rooms upsert returned
SyncRoomDone(i, r, ok) ==
    /\ Yielding
    /\ lastStep' = "none"
    /\ UNCHANGED <<apiVars, keyVars, owner, resetPc, resumePc, resetLog>>
    /\ phase[i][r] = "room"
    /\ IF ok
       THEN /\ roomUpserts' = [roomUpserts EXCEPT ![r] = @ + 1]
            /\ phase' = [phase EXCEPT ![i][r] =
                            IF participantRows(r) = 0 THEN "done" ELSE "members"]
            /\ UNCHANGED <<startPc, syncState, syncError, errVars, startErr>>
       ELSE /\ phase' = [phase EXCEPT ![i][r] = "err"]
            /\ UNCHANGED roomUpserts
            /\ IF startPc[i] = "backfill"
               THEN \E recovered \in BOOLEAN : startSyncThrows(i, "Failed to sync room", recovered)
               ELSE UNCHANGED <<startPc, syncState, syncError, errVars, startErr>>
    /\ UNCHANGED <<qVars, processingQueue, lastSyncToken, storedToken, messages, syncErrors,
                   participantUpserts, clientVars, stopPc, workVars, handlers, delivered, deliveries, lastContent, passed, stopItems, stops>>

\* syncParticipants: the participants upsert returned
SyncParticipantsDone(i, r, ok) ==
    /\ Yielding
    /\ lastStep' = "none"
    /\ UNCHANGED <<apiVars, keyVars, owner, resetPc, resumePc, resetLog>>
    /\ phase[i][r] = "members"
    /\ IF ok
       THEN /\ participantUpserts' = [participantUpserts EXCEPT ![r] = @ + participantRows(r)]
            /\ phase' = [phase EXCEPT ![i][r] = "done"]
            /\ UNCHANGED <<startPc, syncState, syncError, errVars, startErr>>
       ELSE /\ phase' = [phase EXCEPT ![i][r] = "err_members"]
            /\ UNCHANGED participantUpserts
            /\ IF startPc[i] = "backfill"
               THEN \E recovered \in BOOLEAN :
                        startSyncThrows(i, "Failed to sync participants batch", recovered)
               ELSE UNCHANGED <<startPc, syncState, syncError, errVars, startErr>>
    /\ UNCHANGED <<qVars, processingQueue, lastSyncToken, storedToken, messages, syncErrors,
                   roomUpserts, clientVars, stopPc, workVars, handlers, delivered, deliveries, lastContent, passed, stopItems, stops>>

\* initialSetup resolved: setupSyncListeners, then syncApi.sync() is called
StartListen(i) ==
    /\ Yielding
    /\ lastStep' = "none"
    /\ UNCHANGED <<apiVars, keyVars, errVars, ctlVars>>
    /\ startPc[i] = "backfill"
    /\ \A r \in Rooms : phase[i][r] = "done"
    /\ listeners' = listeners + 1
    /\ syncCalls' = syncCalls + 1
    /\ streaming' = TRUE
    /\ startPc' = [startPc EXCEPT ![i] = "sync"]
    /\ UNCHANGED <<qVars, mgrVars, storeVars, cryptoInitialized, responded, phase, stopPc, workVars,
                   handlers, histVars>>

\* syncApi.sync() resolved: startMessageQueueProcessor
StartProcessor(i) ==
    /\ Yielding
    /\ lastStep' = "none"
    /\ UNCHANGED <<apiVars, keyVars, errVars, ctlVars>>
    /\ startPc[i] = "sync"
    /\ startPc' = [startPc EXCEPT ![i] = "done"]
    /\ IF processingQueue
       THEN UNCHANGED <<processingQueue, pc>>
       ELSE /\ FreeProcs # {}
            /\ processingQueue' = TRUE
            /\ pc' = [pc EXCEPT ![CHOOSE w \in FreeProcs : \A v \in FreeProcs : w <= v] = "run"]
    /\ UNCHANGED <<qVars, syncState, syncError, lastSyncToken, storeVars, clientVars, phase,
                   stopPc, msgs, rds, errs, handlers, histVars>>


(* ---------------------- timeline event handling ------------------------ *)
\* a decrypt failure that falls through to the outer catch
processEventItemOuterCatch(ev, outcome) ==
    IF outcome \in {"throw", "exception"}
    THEN QueueItem(ev.id, "error", 0, ev.content, FALSE, TRUE)
    ELSE QueueItem(ev.id, "message", 0, ev.content, FALSE, FALSE)

\* the item processEvent passes to enqueue.  outcome: "clear" (event not
\* encrypted), "ok" / "falsy" (decryptEvent returned a value / nothing),
\* "throw" (decryptEvent threw), "exception" (the try body threw)
processEventItem(ev, outcome) ==
    CASE outcome = "throw" -> QueueItem(ev.id, "retry_decrypt", 0, ev.content, FALSE, FALSE)
      [] outcome = "exception" -> QueueItem(ev.id, "error", 0, ev.content, FALSE, TRUE)
      [] OTHER -> QueueItem(ev.id, "message", 0, ev.content, FALSE, FALSE)

Copies(n, x) == [k \in 1..n |-> x]

\* toStartOfTimeline is a boolean or undefined; `!toStartOfTimeline` is true
\* for false and for undefined
Truthy(v) == v = "true"

\* a handler that does not look at the direction of the delivery
timelineFilterAnyDirection(room, toStartOfTimeline) == room

\* the condition of the RoomEvent.Timeline handler
timelineFilter(room, toStartOfTimeline) == ~Truthy(toStartOfTimeline) /\ room

\* the client emits RoomEvent.Timeline.  live: the delivery is a forward one
\* of a known room; accepted: the handlers call processEvent; label: what the
\* step is recorded as when the delivery is not a live one.  Every registered
\* handler that calls processEvent runs it up to its first await.
emitTimeline(e, exception, live, accepted, label) ==
    /\ Yielding
    /\ listeners > 0
    /\ streaming
    /\ delivered < MaxDeliveries
    /\ delivered' = delivered + 1
    /\ lastContent' = IF live THEN [lastContent EXCEPT ![e] = delivered'] ELSE lastContent
    /\ deliveries' = IF live THEN [deliveries EXCEPT ![e] = @ + 1] ELSE deliveries
    /\ LET ev == [id |-> e, content |-> delivered']
           outcome == IF exception THEN "exception" ELSE "clear" IN
       IF ~accepted
       THEN /\ lastStep' = label
            /\ UNCHANGED <<qVars, handlers>>
       ELSE IF isEncrypted(e) /\ ~exception
       THEN /\ handlers' = handlers \cup {[id |-> e, content |-> delivered', h |-> h] : h \in 1..listeners}
            /\ lastStep' = IF live THEN "none" ELSE label
            /\ UNCHANGED qVars
       ELSE /\ SetMQ(enqueueAll(MQ, Copies(listeners, processEventItem(ev, outcome))))
            /\ lastStep' = IF live THEN outcome ELSE label
            /\ UNCHANGED handlers
    /\ UNCHANGED <<apiVars, keyVars, errVars, ctlVars>>
    /\ UNCHANGED <<mgrVars, storeVars, clientVars, startVars, stopPc, workVars, passed, stopItems, stops>>

\* RoomEvent.Timeline emitted with any room and direction
Timeline(e, room, toStartOfTimeline, exception) ==
    emitTimeline(e, exception, room /\ ~Truthy(toStartOfTimeline),
                 timelineFilter(room, toStartOfTimeline),
                 IF Truthy(toStartOfTimeline) THEN "paginated" ELSE "no_room")

\* RoomEvent.Timeline emitted for a live event of a known room
Deliver(e, exception) == Timeline(e, TRUE, "false", exception)

\* cryptoManager.decryptEvent settled inside processEvent
DecryptDone(hd, outcome) ==
    /\ Yielding
    /\ hd \in handlers
    /\ handlers' = handlers \ {hd}
    /\ SetMQ(enqueue(MQ, processEventItem(hd, outcome)))
    /\ lastStep' = outcome
    /\ UNCHANGED <<apiVars, keyVars, errVars, ctlVars>>
    /\ UNCHANGED <<mgrVars, storeVars, clientVars, startVars, stopPc, workVars, delivered, deliveries, lastContent, passed, stopItems, stops>>

TimerFire ==
    /\ Yielding
    /\ lastStep' = "none"
    /\ UNCHANGED <<apiVars, keyVars, errVars, ctlVars>>
    /\ \E t \in BagToSet(timers) : SetMQ(timerFire(MQ, t))
    /\ UNCHANGED <<mgrVars, storeVars, clientVars, startVars, stopPc, workVars, handlers,
                   histVars>>

(* ------------------------- batch processors ---------------------------- *)
\* messages upsert with onConflict id: one row per id, the new row wins
RECURSIVE upsertMessages(_, _)
upsertMessages(rows, items) ==
    IF items = <<>> THEN rows
    ELSE upsertMessages({r \in rows : r.id # Head(items).id}
                            \cup {[id |-> Head(items).id, content |-> Head(items).content]},
                        Tail(items))

\* what processMessageBatch enqueues for a message whose upsert failed
retryItem(msg) == [msg EXCEPT !.type = "retry"]

\* processMessageBatch: the messages upsert returned
processMessageBatch(w, ok) ==
    /\ Yielding
    /\ lastStep' = "none"
    /\ UNCHANGED <<apiVars, keyVars, errVars, ctlVars>>
    /\ pc[w] = "work"
    /\ msgs[w] # <<>>
    /\ IF ok
       THEN /\ messages' = upsertMessages(messages, msgs[w])
            /\ UNCHANGED qVars
       ELSE /\ SetMQ(enqueueAll(MQ, [k \in 1..Len(msgs[w]) |-> retryItem(msgs[w][k])]))
            /\ UNCHANGED messages
    /\ msgs' = [msgs EXCEPT ![w] = <<>>]
    /\ UNCHANGED <<mgrVars, storedToken, syncErrors, roomUpserts, participantUpserts,
                   clientVars, startVars, stopPc, pc, rds, errs, handlers, histVars>>

\* what processRetryDecryption passes to enqueue after a decryptEvent that
\* returned a value: the event is rebuilt as an object literal
decryptedItem(item) == QueueItem(item.id, "message", 0, item.content, TRUE, FALSE)
\* ... and after a decryptEvent that returned nothing
stillEncryptedItem(item) == [item EXCEPT !.retryCount = item.retryCount + 1]

\* processRetryDecryption: decryptEvent settled for the next item of the list
processRetryDecryption(w, outcome) ==
    /\ Yielding
    /\ pc[w] = "work"
    /\ rds[w] # <<>>
    /\ LET item == Head(rds[w]) IN
       /\ CASE outcome = "ok" -> SetMQ(enqueue(MQ, decryptedItem(item)))
            [] outcome = "falsy" -> /\ item.retryCount < MaxRetryCount
                                    /\ SetMQ(enqueue(MQ, stillEncryptedItem(item)))
            [] OTHER -> UNCHANGED qVars
       /\ lastStep' = CASE outcome = "ok" -> "rd_ok"
                         [] outcome = "falsy" -> "rd_falsy"
                         [] OTHER -> "rd_throw"
    /\ rds' = [rds EXCEPT ![w] = Tail(@)]
    /\ UNCHANGED <<apiVars, keyVars, errVars, ctlVars>>
    /\ pc' = [pc EXCEPT ![w] = IF w = KeyTask /\ Tail(rds[w]) = <<>> THEN "idle" ELSE @]
    /\ UNCHANGED <<mgrVars, storeVars, clientVars, startVars, stopPc, msgs, errs, handlers,
                   delivered, deliveries, lastContent, passed, stopItems, stops>>

\* processErrorMessages: the sync_errors upsert returned
processErrorMessages(w) ==
    /\ Yielding
    /\ lastStep' = "none"
    /\ UNCHANGED <<apiVars, keyVars, errVars, ctlVars>>
    /\ pc[w] = "work"
    /\ errs[w] # <<>>
    /\ syncErrors' = syncErrors \cup {errs[w][k].id : k \in 1..Len(errs[w])}
    /\ errs' = [errs EXCEPT ![w] = <<>>]
    /\ UNCHANGED <<qVars, mgrVars, storedToken, messages, roomUpserts, participantUpserts,
                   clientVars, startVars, stopPc, pc, msgs, rds, handlers, histVars>>

\* one pass of the while loop of startMessageQueueProcessor
ProcessorLoop(w) ==
    /\ Yielding
    /\ lastStep' = "none"
    /\ UNCHANGED <<apiVars, keyVars, errVars, ctlVars>>
    /\ w \in Procs
    /\ pc[w] \in {"sleep", "backoff"} \/ AtLoopHead(w)
    /\ IF ~processingQueue
       THEN /\ pc' = [pc EXCEPT ![w] = "idle"]
            /\ UNCHANGED <<qVars, msgs, rds, errs, passed>>
       ELSE LET batch == dequeueBatch(MQ, batchSize) IN
            IF batch = <<>>
            THEN /\ pc' = [pc EXCEPT ![w] = "sleep"]
                 /\ UNCHANGED <<qVars, msgs, rds, errs, passed>>
            ELSE /\ SetMQ(dequeue(MQ, batchSize))
                 /\ StartBatch(w, batch)
                 /\ pc' = [pc EXCEPT ![w] = "work"]
    /\ UNCHANGED <<mgrVars, storeVars, clientVars, startVars, stopPc, handlers, delivered, deliveries, lastContent, stopItems, stops>>

\* a loop without the try/catch: the exception ends it
ProcessorThrowsEndsLoop(w) ==
    /\ Yielding
    /\ w \in Procs
    /\ pc[w] = "work"
    /\ \/ msgs[w] # <<>> /\ rds[w] = <<>> /\ errs[w] = <<>>
       \/ errs[w] # <<>> /\ rds[w] = <<>> /\ msgs[w] = <<>>
    /\ msgs' = [msgs EXCEPT ![w] = <<>>]
    /\ errs' = [errs EXCEPT ![w] = <<>>]
    /\ pc' = [pc EXCEPT ![w] = "idle"]
    /\ lastStep' = "processor_threw"
    /\ UNCHANGED <<apiVars, keyVars, errVars, ctlVars>>
    /\ UNCHANGED <<qVars, mgrVars, storeVars, clientVars, startVars, stopPc, rds, handlers, histVars>>

\* processMessageBatch or processErrorMessages of a processor loop throws
\* (formatting a row, a rejected store call) once the other processors of the
\* Promise.all have settled: the catch of the loop logs it and sleeps 5 s
ProcessorThrows(w) ==
    /\ Yielding
    /\ w \in Procs
    /\ pc[w] = "work"
    /\ \/ msgs[w] # <<>> /\ rds[w] = <<>> /\ errs[w] = <<>>
       \/ errs[w] # <<>> /\ rds[w] = <<>> /\ msgs[w] = <<>>
    /\ msgs' = [msgs EXCEPT ![w] = <<>>]
    /\ errs' = [errs EXCEPT ![w] = <<>>]
    /\ pc' = [pc EXCEPT ![w] = "backoff"]
    /\ lastStep' = "processor_threw"
    /\ UNCHANGED <<apiVars, keyVars, errVars, ctlVars>>
    /\ UNCHANGED <<qVars, mgrVars, storeVars, clientVars, startVars, stopPc, rds, handlers, histVars>>

\* getPending('retry_decrypt') handed to processRetryDecryption
retryPending(tag) ==
    /\ Yielding
    /\ lastStep' = "none"
    /\ UNCHANGED <<apiVars, keyVars, errVars, ctlVars>>
    /\ streaming
    /\ pc[KeyTask] = "idle"
    /\ getPending(MQ, "retry_decrypt") # <<>>
    /\ rds' = [rds EXCEPT ![KeyTask] = getPending(MQ, "retry_decrypt")]
    /\ pc' = [pc EXCEPT ![KeyTask] = "work"]
    /\ UNCHANGED <<qVars, mgrVars, storeVars, clientVars, startVars, stopPc, msgs, errs,
                   handlers, histVars>>

\* cryptoCallbacks.onSyncCompleted
processPendingEvents == retryPending("onSyncCompleted")
\* cryptoCallbacks.onRoomKeyReceived
handleRoomKeyUpdate == retryPending("onRoomKeyReceived")

(* ------------------------------- stop ---------------------------------- *)
\* stopSync up to the await inside updateSyncStatus
stopSyncBegin ==
    /\ Yielding
    /\ UNCHANGED <<apiVars, keyVars, errVars>>
    /\ stopPc \in {"idle", "done"}
    /\ stops < MaxStops
    /\ stops' = stops + 1
    /\ streaming' = FALSE
    /\ listeners' = 0
    /\ processingQueue' = FALSE
    /\ updateSyncStatus("stopped", "")
    /\ stopPc' = "status"
    /\ stopItems' = MapKeys(queue) \cup MapKeys(processing)
    /\ passed' = UNION {SeqKeys(msgs[w]) \cup SeqKeys(rds[w]) \cup SeqKeys(errs[w]) : w \in Workers}
    /\ UNCHANGED <<qVars, lastSyncToken, storeVars, syncCalls, cryptoInitialized, responded, startVars,
                   workVars, handlers, delivered, deliveries, lastContent>>

\* stopSync called from outside
StopCall ==
    /\ stopSyncBegin
    /\ lastStep' = "none"
    /\ UNCHANGED ctlVars

\* the sync_status write returned; saveSyncToken when a token is held (a
\* failed write is logged and swallowed); then drainMessageQueue begins
StopSaveToken(writeOk) ==
    /\ Yielding
    /\ lastStep' = IF lastSyncToken = NoToken THEN "none"
                   ELSE IF writeOk THEN "saveSyncToken" ELSE "saveSyncToken_failed"
    /\ UNCHANGED <<apiVars, keyVars, errVars, ctlVars>>
    /\ stopPc = "status"
    /\ storedToken' = IF lastSyncToken # NoToken /\ writeOk THEN lastSyncToken ELSE storedToken
    /\ stopPc' = "drain"
    /\ pc' = [pc EXCEPT ![Drain] = "run"]
    /\ UNCHANGED <<qVars, mgrVars, messages, syncErrors, roomUpserts, participantUpserts,
                   clientVars, startVars, msgs, rds, errs, handlers, histVars>>

\* one pass of the while loop of drainMessageQueue
DrainLoop ==
    /\ AtLoopHead(Drain)
    /\ lastStep' = "none"
    /\ UNCHANGED <<apiVars, keyVars, errVars, ctlVars>>
    /\ IF size(MQ) = 0
       THEN /\ pc' = [pc EXCEPT ![Drain] = "idle"]
            /\ stopPc' = "done"
            /\ UNCHANGED <<qVars, msgs, rds, errs, passed>>
       ELSE LET batch == dequeueBatch(MQ, batchSize) IN
            IF batch = <<>>
            THEN UNCHANGED <<qVars, pc, stopPc, msgs, rds, errs, passed>>
            ELSE /\ SetMQ(dequeue(MQ, batchSize))
                 /\ StartBatch(Drain, batch)
                 /\ pc' = [pc EXCEPT ![Drain] = "work"]
                 /\ UNCHANGED stopPc
    /\ UNCHANGED <<mgrVars, storeVars, clientVars, startVars, handlers, delivered, deliveries, lastContent, stopItems, stops>>

(* ---------------------- reset, resume and force ----------------------- *)
\* startMessageQueueProcessor: a loop is started unless one is running
startMessageQueueProcessor ==
    IF processingQueue
    THEN UNCHANGED <<processingQueue, pc>>
    ELSE /\ FreeProcs # {}
         /\ processingQueue' = TRUE
         /\ pc' = [pc EXCEPT ![CHOOSE w \in FreeProcs : \A v \in FreeProcs : w <= v] = "run"]

\* syncApi.sync() called by startSync rejected
StartSyncFailed(i, message) ==
    /\ Yielding
    /\ lastStep' = "none"
    /\ startPc[i] = "sync"
    /\ isCryptoError(message) => cryptoErrors < MaxErrors
    /\ \E recovered \in BOOLEAN : startSyncThrows(i, message, recovered)
    /\ UNCHANGED <<qVars, processingQueue, lastSyncToken, storeVars, clientVars, phase, stopPc,
                   workVars, handlers, histVars, apiVars, keyVars, owner, resetPc, resumePc, resetLog>>

\* the catch of resetSync or resumeSync around the startSync call that threw:
\* handleSyncError once more with the same error
OuterCatch(i) ==
    /\ Yielding
    /\ lastStep' = "rethrown"
    /\ startPc[i] = "failed"
    /\ \/ owner[i] = "reset" /\ resetPc = "start" /\ resetPc' = "failed" /\ UNCHANGED resumePc
       \/ owner[i] = "resume" /\ resumePc = "start" /\ resumePc' = "failed" /\ UNCHANGED resetPc
    /\ \E recovered \in BOOLEAN : handleSyncError(startErr[i], recovered)
    /\ UNCHANGED <<qVars, processingQueue, lastSyncToken, storeVars, clientVars, startVars, stopPc,
                   workVars, handlers, histVars, apiVars, keyVars, cryptoErrors, owner, startErr, resetLog>>

\* ClientEvent.Sync with state ERROR and an error in data: every registered
\* handler calls handleSyncError
StreamError(message) ==
    /\ Yielding
    /\ listeners > 0
    /\ streaming
    /\ isCryptoError(message) => cryptoErrors < MaxErrors
    /\ Occurs(message)
    /\ \E recovered \in BOOLEAN : handleSyncErrors(message, recovered, listeners)
    /\ lastStep' = "ERROR"
    /\ UNCHANGED <<qVars, processingQueue, lastSyncToken, storeVars, clientVars, startVars,
                   stopPc, workVars, handlers, histVars, apiVars, keyVars, ctlVars>>

\* resetSync: stopSync is called
ResetCall ==
    /\ resetPc = "idle"
    /\ \E i \in 1..MaxStarts : startPc[i] = "idle"
    /\ stopSyncBegin
    /\ lastStep' = "resetSync"
    /\ resetPc' = "stop"
    /\ resetLog' = syncErrors
    /\ UNCHANGED <<owner, startErr, resumePc>>

\* stopSync resolved: lastSyncToken = null, the sync_state delete is issued
ResetClearState ==
    /\ Yielding
    /\ lastStep' = "none"
    /\ resetPc = "stop"
    /\ stopPc = "done"
    /\ lastSyncToken' = NoToken
    /\ resetPc' = "token"
    /\ UNCHANGED <<qVars, syncState, syncError, processingQueue, storeVars, clientVars, startVars,
                   stopPc, workVars, handlers, histVars, apiVars, keyVars, errVars, owner, startErr,
                   resumePc, resetLog>>

\* the sync_state delete returned (its result is not looked at);
\* messageQueue.clear(), then the sync_errors delete is issued
ResetClearQueue(ok) ==
    /\ Yielding
    /\ lastStep' = "clear"
    /\ resetPc = "token"
    /\ storedToken' = IF ok THEN NoToken ELSE storedToken
    /\ SetMQ(clear(MQ))
    /\ resetPc' = "errors"
    /\ UNCHANGED <<mgrVars, messages, syncErrors, roomUpserts, participantUpserts, clientVars,
                   startVars, stopPc, workVars, handlers, histVars, apiVars, keyVars, errVars, owner,
                   startErr, resumePc, resetLog>>

\* the sync_errors delete returned (its result is not looked at); startSync
ResetRestart(ok) ==
    /\ Yielding
    /\ lastStep' = "none"
    /\ resetPc = "errors"
    /\ syncErrors' = IF ok THEN {} ELSE syncErrors
    /\ \E i \in 1..MaxStarts, recovered \in BOOLEAN : startSyncBegin(i, "reset", recovered)
    /\ resetPc' = "start"
    /\ UNCHANGED <<qVars, processingQueue, lastSyncToken, storedToken, messages, roomUpserts,
                   participantUpserts, clientVars, phase, stopPc, workVars, handlers, histVars,
                   apiVars, keyVars, resumePc, resetLog>>

\* resetSync has resolved: its startSync call did
ResetResolved == resetPc = "start" /\ \E i \in 1..MaxStarts : owner[i] = "reset" /\ startPc[i] = "done"

\* resumeSync: nothing is done unless the state is stopped
ResumeCall ==
    /\ Yielding
    /\ resumePc = "idle"
    /\ IF syncState = "stopped"
       THEN /\ resumePc' = "load"
            /\ lastStep' = "resumeSync"
       ELSE /\ resumePc' = "done"
            /\ lastStep' = "resumeSync_skipped"
    /\ UNCHANGED <<qVars, mgrVars, storeVars, clientVars, startVars, stopPc, workVars, handlers,
                   histVars, apiVars, keyVars, errVars, owner, startErr, resetPc, resetLog>>

\* loadSavedSync returned to resumeSync: with a token syncApi.sync() is called
\* (no listener is registered), without one startSync
ResumeLoaded(readOk) ==
    /\ Yielding
    /\ lastStep' = "none"
    /\ resumePc = "load"
    /\ IF readOk /\ storedToken # NoToken
       THEN /\ lastSyncToken' = storedToken
            /\ syncCalls' = syncCalls + 1
            /\ streaming' = TRUE
            /\ resumePc' = "sync"
            /\ UNCHANGED <<syncState, syncError, errVars, startPc, owner, startErr>>
       ELSE /\ \E i \in 1..MaxStarts, recovered \in BOOLEAN : startSyncBegin(i, "resume", recovered)
            /\ resumePc' = "start"
            /\ UNCHANGED <<lastSyncToken, syncCalls, streaming>>
    /\ UNCHANGED <<qVars, processingQueue, storeVars, listeners, cryptoInitialized, responded, phase, stopPc,
                   workVars, handlers, histVars, apiVars, keyVars, resetPc, resetLog>>

\* syncApi.sync() called by resumeSync resolved: startMessageQueueProcessor,
\* updateSyncStatus('syncing')
ResumeSynced ==
    /\ Yielding
    /\ lastStep' = "none"
    /\ resumePc = "sync"
    /\ startMessageQueueProcessor
    /\ updateSyncStatus("syncing", "")
    /\ resumePc' = "done"
    /\ UNCHANGED <<qVars, lastSyncToken, storeVars, clientVars, startVars, stopPc, msgs, rds, errs,
                   handlers, histVars, apiVars, keyVars, errVars, owner, startErr, resetPc, resetLog>>

\* syncApi.sync() called by resumeSync rejected
ResumeSyncFailed(message) ==
    /\ Yielding
    /\ lastStep' = "none"
    /\ resumePc = "sync"
    /\ isCryptoError(message) => cryptoErrors < MaxErrors
    /\ Occurs(message)
    /\ \E recovered \in BOOLEAN : handleSyncError(message, recovered)
    /\ resumePc' = "failed"
    /\ UNCHANGED <<qVars, processingQueue, lastSyncToken, storeVars, clientVars, startVars, stopPc,
                   workVars, handlers, histVars, apiVars, keyVars, owner, startErr, resetPc, resetLog>>

\* forceSync: the state becomes syncing when retryImmediately() returns true
ForceCall(result) ==
    /\ Yielding
    /\ lastStep' = "forceSync"
    /\ IF result THEN updateSyncStatus("syncing", "") ELSE UNCHANGED <<syncState, syncError>>
    /\ UNCHANGED <<qVars, processingQueue, lastSyncToken, storeVars, clientVars, startVars, stopPc,
                   workVars, handlers, histVars, apiVars, keyVars, errVars, ctlVars>>

\* forceSync: retryImmediately() threw
ForceFailed(message) ==
    /\ Yielding
    /\ lastStep' = "forceSync"
    /\ isCryptoError(message) => cryptoErrors < MaxErrors
    /\ Occurs(message)
    /\ \E recovered \in BOOLEAN : handleSyncError(message, recovered)
    /\ UNCHANGED <<qVars, processingQueue, lastSyncToken, storeVars, clientVars, startVars, stopPc,
                   workVars, handlers, histVars, apiVars, keyVars, ctlVars>>

\* queueStatus of getSyncStatus: the counts of getStatus with retrying replaced
\* by the length of getPending('retry_decrypt')
queueStatus(m) == [getStatus(m) EXCEPT !.retrying = Len(getPending(m, "retry_decrypt"))]

(* ------------------- direct calls on MessageQueueImpl ------------------ *)
QueueItemType == {"message", "retry_decrypt", "error", "retry"}

\* the event the caller's items carry
CallerIds == {1}

\* the items a caller passes to enqueue: a fresh item of any type, or an item
\* of type retry with the retry count it has so far
CallerItems ==
    {QueueItem(id, type, 0, 0, FALSE, type = "error") :
        id \in CallerIds, type \in QueueItemType}
    \cup {QueueItem(id, "retry", rc, 0, FALSE, FALSE) : id \in CallerIds, rc \in 1..maxRetries}

CallerStep(label) ==
    /\ qcalls < MaxQueueCalls
    /\ qcalls' = qcalls + 1
    /\ lastStep' = label
    /\ UNCHANGED <<mgrVars, storeVars, clientVars, startVars, stopPc, workVars, handlers, histVars,
                   errVars, ctlVars, keyVars>>

EnqueueCall(item) ==
    /\ CallerStep(IF MapHas(processing, getItemKey(item)) THEN "enqueue_inflight" ELSE "enqueue")
    /\ SetMQ(enqueue(MQ, item))
    /\ UNCHANGED <<held, requeued>>

DequeueCall(b) ==
    /\ CallerStep("dequeue")
    /\ held' = dequeueBatch(MQ, b)
    /\ SetMQ(dequeue(MQ, b))
    /\ UNCHANGED requeued

\* requeue of the batch the caller holds, or of one item of it; requeued counts
\* the calls per event id, one more than maxRetries at most
RequeueCall(items) ==
    /\ items # <<>>
    /\ \A k \in 1..Len(items) : requeued[items[k].id] <= maxRetries
    /\ lastStep' = "requeue"
    /\ UNCHANGED <<mgrVars, storeVars, clientVars, startVars, stopPc, workVars, handlers, histVars,
                   qcalls, errVars, ctlVars, keyVars>>
    /\ SetMQ(requeue(MQ, items))
    /\ requeued' = [e \in EventIds |->
                       IF \E k \in 1..Len(items) : items[k].id = e
                       THEN requeued[e] + 1 ELSE requeued[e]]
    /\ UNCHANGED held

RetryFailedCall ==
    /\ CallerStep("retryFailed")
    /\ SetMQ(retryFailed(MQ))
    /\ requeued' = [e \in EventIds |-> 0]
    /\ UNCHANGED held

ClearFailedCall ==
    /\ CallerStep("clearFailed")
    /\ SetMQ(clearFailed(MQ))
    /\ UNCHANGED <<held, requeued>>

ClearCall ==
    /\ CallerStep("clear")
    /\ SetMQ(clear(MQ))
    /\ UNCHANGED <<held, requeued>>

(* ------------------------- stream lifecycle ---------------------------- *)
toLowerCase(state) ==
    CASE state = "PREPARED" -> "prepared"
      [] state = "SYNCING" -> "syncing"
      [] OTHER -> state

\* ClientEvent.Sync emitted by the client
StreamState(state) ==
    /\ Yielding
    /\ listeners > 0
    /\ streaming
    /\ IF state = "ERROR"
       THEN /\ Occurs("Unknown sync error")
            /\ \E recovered \in BOOLEAN : handleSyncError("Unknown sync error", recovered)
       ELSE /\ updateSyncStatus(toLowerCase(state), "")
            /\ UNCHANGED errVars
    /\ lastStep' = state
    /\ UNCHANGED <<apiVars, keyVars, ctlVars>>
    /\ responded' = (responded \/ state # "ERROR")
    /\ UNCHANGED <<qVars, processingQueue, lastSyncToken, storeVars, listeners, syncCalls, streaming,
                   cryptoInitialized, startVars,
                   stopPc, workVars, handlers, delivered, deliveries, lastContent, passed, stopItems, stops>>

(* --------------------------- CryptoManager ----------------------------- *)
\* status.backupStatus after construction; auth_data is the pair
\* <<private_key_salt, private_key_iterations>> of the recorded backup, <<>> for null
NoBackupStatus == [enabled |-> FALSE, auth_data |-> <<>>]

\* what checkKeyBackupAndEnable() does when recoverKeys calls it first: it
\* rejects, resolves to null, resolves to a value without backupInfo, or
\* resolves to a backup with its auth data and trust
Lookups ==
    {[found |-> f, private_key_salt |-> FALSE, private_key_iterations |-> FALSE, trusted |-> FALSE] :
        f \in {"throws", "null", "no_info"}}
    \cup {[found |-> "backup", private_key_salt |-> salt, private_key_iterations |-> iterations,
           trusted |-> trusted] : salt \in BOOLEAN, iterations \in BOOLEAN, trusted \in BOOLEAN}

\* a recoverKeys call: whether client.getCrypto() returns an object, the lookup,
\* the passphrase argument, and whether the second checkKeyBackupAndEnable()
\* and the restore call of the SDK resolve
RecoverCalls ==
    [crypto : BOOLEAN, lookup : Lookups, passphrase : {"undefined", "", "pw"},
     enableOk : BOOLEAN, restoreOk : BOOLEAN, error : {""}, restore : {<<>>}]

NoRecoverCall ==
    [crypto |-> TRUE,
     lookup |-> [found |-> "null", private_key_salt |-> FALSE, private_key_iterations |-> FALSE,
                 trusted |-> FALSE],
     passphrase |-> "undefined", enableOk |-> TRUE, restoreOk |-> TRUE, error |-> "none",
     restore |-> <<>>]

\* a passphrase test that takes the empty string for a passphrase
givenOrEmpty(passphrase) == passphrase # "undefined"

\* `!passphrase` is true for undefined and for the empty string
given(passphrase) == passphrase \notin {"undefined", ""}

\* auth_data?.private_key_salt && auth_data?.private_key_iterations
isPassphraseBackup(backupInfo) == backupInfo.private_key_salt /\ backupInfo.private_key_iterations

\* recoverKeys: the code of the CryptoError thrown ("" when it resolves), the
\* restore calls made on the SDK, and status.backupStatus afterwards
recoverKeys(status, call) ==
    LET recorded == [enabled |-> TRUE,
                     auth_data |-> <<call.lookup.private_key_salt, call.lookup.private_key_iterations>>]
        result(error, restore) ==
            [error |-> error, restore |-> restore,
             status |-> IF error = "" THEN recorded ELSE status]
    IN  IF ~call.crypto THEN result("CRYPTO_NOT_INITIALIZED", <<>>)
        ELSE IF call.lookup.found = "throws" THEN result("RECOVERY_FAILED", <<>>)
        ELSE IF call.lookup.found # "backup" THEN result("NO_BACKUP_FOUND", <<>>)
        ELSE IF isPassphraseBackup(call.lookup)
        THEN IF ~given(call.passphrase) THEN result("PASSPHRASE_REQUIRED", <<>>)
             ELSE IF call.restoreOk THEN result("", <<"passphrase">>)
             ELSE result("RECOVERY_FAILED", <<"passphrase">>)
        ELSE IF ~call.enableOk THEN result("SECRET_STORAGE_RESTORE_FAILED", <<>>)
        ELSE IF call.lookup.trusted THEN result("", <<>>)
        ELSE IF call.restoreOk THEN result("", <<"secret_storage">>)
        ELSE result("SECRET_STORAGE_RESTORE_FAILED", <<"secret_storage">>)

\* cryptoManager.recoverKeys(passphrase) called and settled
RecoverKeysCall(call) ==
    /\ recoverCalls < MaxRecoverCalls
    /\ recoverCalls' = recoverCalls + 1
    /\ LET r == recoverKeys(backupStatus, call) IN
       /\ backupStatus' = r.status
       /\ restores' = restores \o r.restore
       /\ recoverCall' = [call EXCEPT !.error = r.error, !.restore = r.restore]
    /\ lastStep' = "recoverKeys"
    /\ UNCHANGED <<qVars, mgrVars, storeVars, clientVars, startVars, stopPc, workVars, handlers,
                   histVars, apiVars, errVars, ctlVars>>

(* ------------------------- the specification --------------------------- *)
Init ==
    /\ queue = <<>> /\ processing = <<>> /\ failed = <<>> /\ retrying = <<>>
    /\ timers = EmptyBag
    /\ syncState = "initializing" /\ syncError = ""
    /\ processingQueue = FALSE
    /\ lastSyncToken = NoToken
    /\ storedToken \in {NoToken, Token}
    /\ messages = {} /\ syncErrors = {}
    /\ roomUpserts = [r \in Rooms |-> 0]
    /\ participantUpserts = [r \in Rooms |-> 0]
    /\ listeners = 0 /\ syncCalls = 0 /\ streaming = FALSE
    /\ cryptoInitialized \in BOOLEAN
    /\ responded = FALSE
    /\ startPc = [i \in 1..MaxStarts |-> "idle"]
    /\ phase = [i \in 1..MaxStarts |-> [r \in Rooms |-> "no"]]
    /\ stopPc = "idle"
    /\ pc = [w \in Workers |-> "idle"]
    /\ msgs = [w \in Workers |-> <<>>]
    /\ rds = [w \in Workers |-> <<>>]
    /\ errs = [w \in Workers |-> <<>>]
    /\ handlers = {}
    /\ delivered = 0
    /\ lastContent = [e \in EventIds |-> 0]
    /\ deliveries = [e \in EventIds |-> 0]
    /\ lastStep = "none"
    /\ held = <<>>
    /\ requeued = [e \in EventIds |-> 0]
    /\ qcalls = 0
    /\ cryptoErrors = 0 /\ recoveries = 0 /\ errorRetries = 0
    /\ owner = [i \in 1..MaxStarts |-> "none"]
    /\ startErr = [i \in 1..MaxStarts |-> ""]
    /\ resetPc = "idle" /\ resumePc = "idle"
    /\ resetLog = {}
    /\ backupStatus = NoBackupStatus
    /\ restores = <<>>
    /\ recoverCall = NoRecoverCall
    /\ recoverCalls = 0
    /\ passed = {}
    /\ stopItems = {}
    /\ stops = 0

Next ==
    \/ \E i \in 1..MaxStarts : StartCall(i)
    \/ \E i \in 1..MaxStarts, readOk \in BOOLEAN : StartLoaded(i, readOk)
    \/ \E i \in 1..MaxStarts, r \in Rooms, ok \in BOOLEAN : SyncRoomDone(i, r, ok)
    \/ \E i \in 1..MaxStarts, r \in Rooms, ok \in BOOLEAN : SyncParticipantsDone(i, r, ok)
    \/ \E i \in 1..MaxStarts : StartListen(i)
    \/ \E i \in 1..MaxStarts : StartProcessor(i)
    \/ \E e \in EventIds, room \in BOOLEAN, toStartOfTimeline \in {"true", "false", "undefined"},
          exception \in BOOLEAN : Timeline(e, room, toStartOfTimeline, exception)
    \/ \E hd \in handlers, outcome \in {"ok", "falsy", "throw"} : DecryptDone(hd, outcome)
    \/ TimerFire
    \/ \E w \in Workers, ok \in BOOLEAN : processMessageBatch(w, ok)
    \/ \E w \in Workers, outcome \in {"ok", "falsy", "throw"} : processRetryDecryption(w, outcome)
    \/ \E w \in Workers : processErrorMessages(w)
    \/ \E w \in Procs : ProcessorLoop(w)
    \/ processPendingEvents
    \/ handleRoomKeyUpdate
    \/ StopCall
    \/ \E writeOk \in BOOLEAN : StopSaveToken(writeOk)
    \/ DrainLoop
    \/ \E state \in {"PREPARED", "SYNCING", "ERROR"} : StreamState(state)
    \/ \E item \in CallerItems : EnqueueCall(item)
    \/ \E b \in 0..batchSize : DequeueCall(b)
    \/ \E items \in {held} \cup {<<held[k]>> : k \in 1..Len(held)} : RequeueCall(items)
    \/ RetryFailedCall
    \/ ClearFailedCall
    \/ ClearCall
    \/ \E i \in 1..MaxStarts, message \in StreamErrors : StartSyncFailed(i, message)
    \/ \E i \in 1..MaxStarts : OuterCatch(i)
    \/ \E message \in StreamErrors : StreamError(message)
    \/ ResetCall
    \/ ResetClearState
    \/ \E ok \in BOOLEAN : ResetClearQueue(ok)
    \/ \E ok \in BOOLEAN : ResetRestart(ok)
    \/ ResumeCall
    \/ \E readOk \in BOOLEAN : ResumeLoaded(readOk)
    \/ ResumeSynced
    \/ \E message \in StreamErrors : ResumeSyncFailed(message)
    \/ \E result \in BOOLEAN : ForceCall(result)
    \/ \E message \in StreamErrors : ForceFailed(message)
    \/ \E call \in RecoverCalls : RecoverKeysCall(call)
    \/ \E w \in Procs : ProcessorThrows(w)

Spec == Init /\ [][Next]_vars

\* The queue on its own: a caller enqueues, dequeues, requeues what it
\* dequeued and reprocesses or clears the failed lane, while backoff timers fire.
NextQueue ==
    \/ \E item \in CallerItems : EnqueueCall(item)
    \/ \E b \in 0..batchSize : DequeueCall(b)
    \/ \E items \in {held} \cup {<<held[k]>> : k \in 1..Len(held)} :
          (\A k \in 1..Len(items) : requeued[items[k].id] = 0) /\ RequeueCall(items)
    \/ RetryFailedCall
    \/ ClearFailedCall
    \/ ClearCall
    \/ TimerFire

\* a caller that keeps requeueing the message batch it dequeued
NextRequeue ==
    \/ \E id \in CallerIds : EnqueueCall(QueueItem(id, "message", 0, 0, FALSE, FALSE))
    \/ \E b \in 0..batchSize : DequeueCall(b)
    \/ \E items \in {held} \cup {<<held[k]>> : k \in 1..Len(held)} : RequeueCall(items)
    \/ RetryFailedCall
    \/ TimerFire


\* the queue of a manager constructed with crypto ready and no stored token
QueueInit == Init /\ storedToken = NoToken /\ cryptoInitialized = TRUE

QueueSpec == QueueInit /\ [][NextQueue]_vars

RequeueSpec == QueueInit /\ [][NextRequeue]_vars


\* The pipeline while the sync runs: one start call with a healthy store
\* during backfill, then timeline deliveries, decryption outcomes, failures
\* of the message writer, backoff timers and crypto callbacks.
NextPipeline ==
    \/ StartCall(1)
    \/ StartLoaded(1, TRUE)
    \/ \E r \in Rooms : SyncRoomDone(1, r, TRUE)
    \/ \E r \in Rooms : SyncParticipantsDone(1, r, TRUE)
    \/ StartListen(1)
    \/ StartProcessor(1)
    \/ \E e \in EventIds, exception \in BOOLEAN : Deliver(e, exception)
    \/ \E hd \in handlers, outcome \in {"ok", "falsy", "throw"} : DecryptDone(hd, outcome)
    \/ TimerFire
    \/ \E w \in Workers, ok \in BOOLEAN : processMessageBatch(w, ok)
    \/ \E w \in Workers, outcome \in {"ok", "falsy", "throw"} : processRetryDecryption(w, outcome)
    \/ \E w \in Workers : processErrorMessages(w)
    \/ \E w \in Procs : ProcessorLoop(w)
    \/ processPendingEvents
    \/ handleRoomKeyUpdate

PipelineSpec == Init /\ [][NextPipeline]_vars

\* Key recovery: recoverKeys called with any passphrase argument against any
\* state of the key backup.
NextKeyBackup == \E call \in RecoverCalls : RecoverKeysCall(call)

KeyBackupSpec == QueueInit /\ [][NextKeyBackup]_vars

\* The timeline handler: one start call with a healthy store, then timeline
\* emissions of either direction, with and without a room, decryption
\* outcomes, the writers and the processor loop.
Directions == {"true", "false", "undefined"}

NextTimeline ==
    \/ StartCall(1)
    \/ StartLoaded(1, TRUE)
    \/ \E r \in Rooms : SyncRoomDone(1, r, TRUE)
    \/ \E r \in Rooms : SyncParticipantsDone(1, r, TRUE)
    \/ StartListen(1)
    \/ StartProcessor(1)
    \/ \E e \in EventIds, room \in BOOLEAN, toStartOfTimeline \in Directions, exception \in BOOLEAN :
          Timeline(e, room, toStartOfTimeline, exception)
    \/ \E hd \in handlers, outcome \in {"ok", "falsy", "throw"} : DecryptDone(hd, outcome)
    \/ \E w \in Workers : processMessageBatch(w, TRUE)
    \/ \E w \in Workers, outcome \in {"ok", "falsy", "throw"} : processRetryDecryption(w, outcome)
    \/ \E w \in Workers : processErrorMessages(w)
    \/ \E w \in Procs : ProcessorLoop(w)

TimelineSpec == Init /\ [][NextTimeline]_vars

\* The pipeline with stop: as above, and stopSync called at any point.
NextStop ==
    \/ NextPipeline
    \/ StopCall
    \/ \E writeOk \in BOOLEAN : StopSaveToken(writeOk)
    \/ DrainLoop

StopSpec == Init /\ [][NextStop]_vars

\* Start and stop of the sync: any number of start calls up to MaxStarts,
\* store failures during backfill, stream lifecycle events, stop, and the
\* delivery of one plain timeline event.
NextLifecycle ==
    \/ \E i \in 1..MaxStarts : StartCall(i)
    \/ \E i \in 1..MaxStarts, readOk \in BOOLEAN : StartLoaded(i, readOk)
    \/ \E i \in 1..MaxStarts, r \in Rooms, ok \in BOOLEAN : SyncRoomDone(i, r, ok)
    \/ \E i \in 1..MaxStarts, r \in Rooms, ok \in BOOLEAN : SyncParticipantsDone(i, r, ok)
    \/ \E i \in 1..MaxStarts : StartListen(i)
    \/ \E i \in 1..MaxStarts : StartProcessor(i)
    \/ \E state \in {"PREPARED", "SYNCING", "ERROR"} : StreamState(state)
    \/ (delivered = 0 /\ Deliver(1, FALSE))
    \/ \E w \in Workers : processMessageBatch(w, TRUE)
    \/ \E w \in Procs : ProcessorLoop(w)
    \/ StopCall
    \/ \E writeOk \in BOOLEAN : StopSaveToken(writeOk)
    \/ DrainLoop

LifecycleSpec == Init /\ [][NextLifecycle]_vars

\* One start call: store failures during backfill, stream lifecycle events,
\* the delivery of plain timeline events and the writer.
NextColdStart ==
    \/ StartCall(1)
    \/ \E readOk \in BOOLEAN : StartLoaded(1, readOk)
    \/ \E r \in Rooms, ok \in BOOLEAN : SyncRoomDone(1, r, ok)
    \/ \E r \in Rooms, ok \in BOOLEAN : SyncParticipantsDone(1, r, ok)
    \/ StartListen(1)
    \/ StartProcessor(1)
    \/ \E state \in {"PREPARED", "SYNCING", "ERROR"} : StreamState(state)
    \/ Deliver(1, FALSE)
    \/ \E w \in Workers : processMessageBatch(w, TRUE)
    \/ \E w \in Procs : ProcessorLoop(w)

ColdStartSpec == Init /\ [][NextColdStart]_vars

\* resetSync: one start call from outside with a healthy store, stream
\* lifecycle events and errors, the delivery of one plain timeline event,
\* then resetSync with store failures in its deletes and in stopSync, and
\* failures of syncApi.sync().
NextReset ==
    \/ StartCall(1)
    \/ \E i \in 1..MaxStarts : StartLoaded(i, TRUE)
    \/ \E i \in 1..MaxStarts, r \in Rooms : SyncRoomDone(i, r, TRUE)
    \/ \E i \in 1..MaxStarts, r \in Rooms : SyncParticipantsDone(i, r, TRUE)
    \/ \E i \in 1..MaxStarts : StartListen(i)
    \/ \E i \in 1..MaxStarts : StartProcessor(i)
    \/ \E i \in 1..MaxStarts, message \in StreamErrors : StartSyncFailed(i, message)
    \/ \E i \in 1..MaxStarts : OuterCatch(i)
    \/ \E state \in {"PREPARED", "SYNCING", "ERROR"} : StreamState(state)
    \/ \E message \in StreamErrors : StreamError(message)
    \/ (delivered = 0 /\ Deliver(1, FALSE))
    \/ \E w \in Workers : processMessageBatch(w, TRUE)
    \/ \E w \in Procs : ProcessorLoop(w)
    \/ \E writeOk \in BOOLEAN : StopSaveToken(writeOk)
    \/ DrainLoop
    \/ ResetCall
    \/ ResetClearState
    \/ \E ok \in BOOLEAN : ResetClearQueue(ok)
    \/ \E ok \in BOOLEAN : ResetRestart(ok)

ResetSpec == Init /\ [][NextReset]_vars

\* One error of each kind the error handler tells apart.
RecoveryErrors == {"Failed to decrypt event", "Connection timed out"}

\* Errors and the calls that follow them: one start call from outside with a
\* healthy store, stream lifecycle events and errors, stop with a healthy
\* store, resumeSync and forceSync. The errors are one the handler takes for a
\* crypto error and one it does not.
NextRecovery ==
    \/ StartCall(1)
    \/ \E i \in 1..MaxStarts : StartLoaded(i, TRUE)
    \/ \E i \in 1..MaxStarts, r \in Rooms : SyncRoomDone(i, r, TRUE)
    \/ \E i \in 1..MaxStarts, r \in Rooms : SyncParticipantsDone(i, r, TRUE)
    \/ \E i \in 1..MaxStarts : StartListen(i)
    \/ \E i \in 1..MaxStarts : StartProcessor(i)
    \/ \E i \in 1..MaxStarts, message \in RecoveryErrors : StartSyncFailed(i, message)
    \/ \E i \in 1..MaxStarts : OuterCatch(i)
    \/ \E state \in {"PREPARED", "SYNCING", "ERROR"} : StreamState(state)
    \/ \E message \in RecoveryErrors : StreamError(message)
    \/ \E w \in Procs : ProcessorLoop(w)
    \/ StopCall
    \/ StopSaveToken(TRUE)
    \/ DrainLoop
    \/ ResumeCall
    \/ \E readOk \in BOOLEAN : ResumeLoaded(readOk)
    \/ ResumeSynced
    \/ \E message \in RecoveryErrors : ResumeSyncFailed(message)
    \/ \E result \in BOOLEAN : ForceCall(result)
    \/ \E message \in RecoveryErrors : ForceFailed(message)

RecoverySpec == Init /\ [][NextRecovery]_vars

\* Stop with a healthy store: every write of the writer succeeds.
NextDrain ==
    \/ StartCall(1)
    \/ StartLoaded(1, TRUE)
    \/ \E r \in Rooms : SyncRoomDone(1, r, TRUE)
    \/ \E r \in Rooms : SyncParticipantsDone(1, r, TRUE)
    \/ StartListen(1)
    \/ StartProcessor(1)
    \/ \E e \in EventIds, exception \in BOOLEAN : Deliver(e, exception)
    \/ \E hd \in handlers, outcome \in {"ok", "falsy", "throw"} : DecryptDone(hd, outcome)
    \/ \E w \in Workers : processMessageBatch(w, TRUE)
    \/ \E w \in Workers, outcome \in {"ok", "falsy", "throw"} : processRetryDecryption(w, outcome)
    \/ \E w \in Workers : processErrorMessages(w)
    \/ \E w \in Procs : ProcessorLoop(w)
    \/ StopCall
    \/ \E writeOk \in BOOLEAN : StopSaveToken(writeOk)
    \/ DrainLoop

\* The event loop runs every continuation that is ready: an I/O completion, a
\* loop pass.  Calls from outside (start, stop, deliveries) are not forced.
DrainFairness ==
    /\ WF_vars(DrainLoop)
    /\ WF_vars(\E writeOk \in BOOLEAN : StopSaveToken(writeOk))
    /\ WF_vars(\E w \in Workers : processMessageBatch(w, TRUE))
    /\ WF_vars(\E w \in Workers, outcome \in {"ok", "falsy", "throw"} : processRetryDecryption(w, outcome))
    /\ WF_vars(\E w \in Workers : processErrorMessages(w))
    /\ WF_vars(\E w \in Procs : ProcessorLoop(w))
    /\ WF_vars(\E hd \in handlers, outcome \in {"ok", "falsy", "throw"} : DecryptDone(hd, outcome))

FairDrainSpec == Init /\ [][NextDrain]_vars /\ DrainFairness

\* The processor loop with exceptions: one start call with a healthy store,
\* deliveries of a plain event and of an event whose handling throws, the two
\* writers, exceptions thrown by them, and stop.
NextProcessor ==
    \/ StartCall(1)
    \/ StartLoaded(1, TRUE)
    \/ \E r \in Rooms : SyncRoomDone(1, r, TRUE)
    \/ \E r \in Rooms : SyncParticipantsDone(1, r, TRUE)
    \/ StartListen(1)
    \/ StartProcessor(1)
    \/ \E e \in EventIds : Deliver(e, isEncrypted(e))
    \/ \E w \in Workers : processMessageBatch(w, TRUE)
    \/ \E w \in Workers : processErrorMessages(w)
    \/ \E w \in Procs : ProcessorThrows(w)
    \/ \E w \in Procs : ProcessorLoop(w)
    \/ StopCall
    \/ StopSaveToken(TRUE)
    \/ DrainLoop

\* The event loop runs every continuation that is ready; a writer that is
\* awaited settles, by resolving or by throwing.
ProcessorFairness ==
    /\ WF_vars(\E w \in Procs : ProcessorLoop(w))
    /\ WF_vars(\E w \in Workers : processMessageBatch(w, TRUE) \/ ProcessorThrows(w))
    /\ WF_vars(\E w \in Workers : processErrorMessages(w) \/ ProcessorThrows(w))

FairProcessorSpec == QueueInit /\ [][NextProcessor]_vars /\ ProcessorFairness

(* ------------------------------ claims --------------------------------- *)
LaneItems(m) == {m[k] : k \in 1..Len(m)}
Held == LaneItems(queue) \cup LaneItems(processing) \cup LaneItems(retrying)
InFlight == UNION {LaneItems(msgs[w]) \cup LaneItems(rds[w]) \cup LaneItems(errs[w]) : w \in Workers}

\* C1: a call to stop() eventually returns to its caller.
C1_StopTerminates == (stopPc = "status") ~> (stopPc = "done")

C3_FailedBatchRetried ==
    \A item \in LaneItems(processing) :
        item.type = "retry" =>
            \/ \E w \in Workers : \E k \in 1..Len(msgs[w]) : msgs[w][k].id = item.id
            \/ [id |-> item.id, content |-> item.content] \in messages
            \/ item \in LaneItems(failed)

\* nothing of event e is still waiting or being processed
Flushed(e) ==
    /\ \A item \in LaneItems(queue) \cup LaneItems(retrying) \cup InFlight : item.id # e
    /\ \A t \in BagToSet(timers) : t.item.id # e
    /\ \A hd \in handlers : hd.id # e
\* every delivery of e was routed to the message lane
OnlyMessages(e) ==
    /\ \A item \in LaneItems(processing) \cup LaneItems(failed) : item.id = e => item.type = "message"
    /\ e \notin syncErrors

\* C4: for an event ID delivered twice, once the queue has flushed the Message
\* table holds exactly one row for the ID, with the content of the later
\* delivery.
C4_RedeliveryLatestContent ==
    \A e \in EventIds :
        (deliveries[e] = 2 /\ Flushed(e) /\ OnlyMessages(e)) =>
            {r \in messages : r.id = e} = {[id |-> e, content |-> lastContent[e]]}

NoStartFailed == \A i \in 1..MaxStarts : startPc[i] # "failed"

\* C5: start() called while a previous start() is in progress or has completed
\* is a no-op: one set of listeners, one stream, one backfill.
C5_StartIsIdempotent ==
    (NoStartFailed /\ stops = 0) =>
        /\ listeners <= 1
        /\ syncCalls <= 1
        /\ \A r \in Rooms : roomUpserts[r] <= 1

\* C6: when a checkpoint token is stored (and one start() has loaded it),
\* start() issues no backfill Room or Participant upsert.
C6_ResumeSkipsBackfill ==
    (lastSyncToken # NoToken /\ \A i \in 2..MaxStarts : startPc[i] = "idle") =>
        \A r \in Rooms : roomUpserts[r] = 0 /\ participantUpserts[r] = 0


Count(S) == Cardinality(S)
RoomUpserted(i, r) == phase[i][r] \in {"members", "done", "err_members"}

NotKeyed(m, k) == SelectSeq(m, LAMBDA x : getItemKey(x) # k)

\* C8: when decryptEvent throws inside processEvent, the event is enqueued
\* once with lane retry_decrypt: after the handler its key (id, retry_decrypt)
\* is held by the queue (in pending, or already in processing), and nothing
\* else changed: no message or error item was enqueued.
C8_DecryptFailureRouting ==
    [][\A hd \in handlers :
          (hd \notin handlers' /\ lastStep' = "throw") =>
              LET key == <<hd.id, "retry_decrypt">> IN
              /\ MapHas(queue', key) \/ MapHas(processing', key)
              /\ ~MapHas(processing, key) =>
                     \E k \in 1..Len(queue') :
                         /\ getItemKey(queue'[k]) = key
                         /\ queue'[k].content = hd.content
              /\ NotKeyed(queue', key) = NotKeyed(queue, key)
              /\ processing' = processing /\ failed' = failed
              /\ retrying' = retrying /\ timers' = timers]_vars

\* a decrypt failure has just been routed to pending
C8_DecryptFailureQueued == lastStep = "throw" /\ MapHas(queue, <<2, "retry_decrypt">>)

\* C9: a decryption attempt on a retry_decrypt item that succeeds enqueues the
\* item with lane message.
C9_DecryptSuccessMovesToMessage ==
    [][lastStep' = "rd_ok" =>
          \A w \in Workers :
              (rds[w] # <<>> /\ rds'[w] = Tail(rds[w])) =>
                  \/ MapHas(queue', <<Head(rds[w]).id, "message">>)
                  \/ MapHas(processing', <<Head(rds[w]).id, "message">>)]_vars

\* C10: no retry_decrypt item whose retry count exceeds maxRetries is still
\* held for another attempt.
C10_DecryptRetriesBounded ==
    \A item \in Held : item.type = "retry_decrypt" => item.retryCount <= maxRetries

\* C11: enqueue of an item of any type whose key (event id, type) is in the
\* processing lane changes nothing: pending, processing, retrying and failed
\* (and the scheduled timers) are as before, after one call and after two.
C11_EnqueueInFlightNoOp ==
    /\ [](\A item \in CallerItems \cup LaneItems(processing) :
             MapHas(processing, getItemKey(item)) =>
                 /\ enqueue(MQ, item) = MQ
                 /\ enqueue(enqueue(MQ, item), item) = MQ)
    /\ [][lastStep' = "enqueue_inflight" => UNCHANGED qVars]_vars

\* enqueue was just called with a key that is in processing
C11_EnqueuedWhileInFlight == lastStep = "enqueue_inflight" /\ processing # <<>>

ItemAt(m, k) == CHOOSE x \in LaneItems(m) : getItemKey(x) = k
RetryItems == {x \in CallerItems \cup Held \cup LaneItems(failed) \cup LaneItems(held) : x.type = "retry"}

C13_RetryExhaustion ==
    \A e \in EventIds :
        requeued[e] >= maxRetries + 1 =>
            /\ MapHas(getFailedItems(MQ), <<e, "retry">>)
            /\ \A x \in LaneItems(queue) \cup LaneItems(retrying) : x.id # e

Index(s, x) == CHOOSE i \in 1..Len(s) : s[i] = x

\* C14: dequeue(b) returns min(b, pending) items of pending; a retry-flagged
\* item (retry count at least 1) is returned only if every fresh item of
\* pending is returned, and after them; fresh items come in their enqueue
\* order; the returned items leave pending and are in processing, and nothing
\* else changes lane.
C14_PriorityDequeue ==
    \A b \in 0..batchSize :
        LET batch == dequeueBatch(MQ, b)
            r == dequeue(MQ, b)
            got == LaneItems(batch)
            fresh(x) == x.retryCount = 0
        IN  /\ Len(batch) = Min(b, Len(queue))
            /\ Cardinality(got) = Len(batch)
            /\ got \subseteq LaneItems(queue)
            /\ (\E x \in got : ~fresh(x)) => \A y \in LaneItems(queue) : fresh(y) => y \in got
            /\ \A x, y \in got : (fresh(x) /\ ~fresh(y)) => Index(batch, x) < Index(batch, y)
            /\ \A x, y \in LaneItems(queue) :
                   (fresh(x) = fresh(y) /\ Index(queue, x) < Index(queue, y) /\ y \in got) =>
                       x \in got /\ Index(batch, x) < Index(batch, y)
            /\ r.queue = SelectSeq(queue, LAMBDA x : x \notin got)
            /\ \A x \in got : x \in LaneItems(r.processing)
            /\ MapKeys(r.processing) = MapKeys(processing) \cup {getItemKey(x) : x \in got}
            /\ \A x \in LaneItems(processing) :
                   getItemKey(x) \notin {getItemKey(y) : y \in got} => x \in LaneItems(r.processing)
            /\ r.failed = failed /\ r.retrying = retrying /\ r.timers = timers

\* dequeue has just returned a full batch of fresh items and left a
\* retry-flagged item in pending
C14_FreshBeforeRetry ==
    /\ lastStep = "dequeue"
    /\ Len(held) = batchSize
    /\ \A x \in LaneItems(held) : x.retryCount = 0 /\ MapHas(processing, getItemKey(x))
    /\ \E x \in LaneItems(queue) : x.retryCount >= 1

RequeueChoices == {held} \cup {<<held[k]>> : k \in 1..Len(held)}

\* C15: after requeue(items) of items that are in processing, every given
\* item is absent from processing and is in retrying with its retry count
\* incremented, or in failed; pending is unchanged.
C15_RequeueThroughRetry ==
    \A items \in RequeueChoices :
        (\A k \in 1..Len(items) : items[k] \in LaneItems(processing)) =>
            LET r == requeue(MQ, items) IN
            /\ r.queue = queue
            /\ \A k \in 1..Len(items) :
                   LET x == items[k] IN
                   /\ x \notin LaneItems(r.processing)
                   /\ \/ \E y \in LaneItems(r.retrying) :
                             y.id = x.id /\ y.type = "retry" /\ y.retryCount = x.retryCount + 1
                      \/ \E y \in LaneItems(r.failed) : y.id = x.id /\ y.type = "retry"

\* C16: the delay scheduled for the N-th retry is 1000, 5000 and 30000 ms for
\* N = 1, 2, 3, and 30000 ms for any larger N; it never decreases with N; and
\* every scheduled timer carries the delay of its item's retry count.
C16_BackoffSchedule ==
    /\ RetryDelay(1) = 1000 /\ RetryDelay(2) = 5000 /\ RetryDelay(3) = 30000
    /\ \A n \in 3..(MaxRetryCount + 1) : RetryDelay(n) = 30000
    /\ \A n \in 1..MaxRetryCount : RetryDelay(n) <= RetryDelay(n + 1)
    /\ \A t \in BagToSet(timers) :
           t.delay = CASE t.item.retryCount = 1 -> 1000
                       [] t.item.retryCount = 2 -> 5000
                       [] OTHER -> 30000

\* a first, a second and a third retry are scheduled
C16_ThreeDelaysScheduled ==
    /\ lastStep \in {"enqueue", "requeue"}
    /\ \A n \in 1..maxRetries :
           \E t \in BagToSet(timers) : t.item.retryCount = n /\ t.delay = retryDelays[n]

\* C17 as stated: a key in the failed lane stays there across every step
\* other than a call of retryFailed.
C17_FailedUntilRetryFailed ==
    [][lastStep' # "retryFailed" => MapKeys(failed) \subseteq MapKeys(failed')]_vars

\* C17: a key in the failed lane stays there across every step other than a
\* call of retryFailed, clearFailed or clear: no enqueue, dequeue, requeue or
\* backoff timer removes it.
C17_FailedUntilOperatorCall ==
    [][lastStep' \notin {"retryFailed", "clearFailed", "clear"} =>
          MapKeys(failed) \subseteq MapKeys(failed')]_vars

\* an item is in failed and stayed there across a dequeue that returned items
C17_FailedSurvivesDequeue ==
    /\ lastStep = "dequeue"
    /\ held # <<>>
    /\ failed # <<>>

\* C18: every item in the failed lane carries the text of the error that
\* caused its failure and has a row in the error log.
C18_FailedItemsLogged ==
    \A x \in LaneItems(getFailedItems(MQ)) : x.error /\ x.id \in syncErrors

\* C19: retryFailed() re-enters every item of the failed lane with its retry
\* history reset (it is scheduled as a first retry), leaves failed empty, and
\* returns the number of items it re-entered.
C19_RetryFailedReentersAll ==
    [][lastStep' = "retryFailed" =>
          LET reentered == {x \in LaneItems(failed) :
                               \E y \in LaneItems(retrying') \cup LaneItems(queue') :
                                   y.id = x.id /\ y.type = "retry" /\ y.retryCount <= 1}
          IN  /\ failed' = <<>>
              /\ reentered = LaneItems(failed)
              /\ retryFailedResult(MQ) = Cardinality(reentered)]_vars

\* message items of pending or of a writer's batch that have no row yet
UnwrittenMessages ==
    {x \in LaneItems(queue) \cup UNION {LaneItems(msgs[w]) : w \in Workers} :
        x.type = "message" /\ [id |-> x.id, content |-> x.content] \notin messages}

\* C20: within a room, Message rows are written in the order the events were
\* delivered on the timeline: no row exists for an event while a message item
\* of an event delivered earlier in the same room is still to be written.
C20_TimelineOrder ==
    \A r \in messages : \A x \in UnwrittenMessages :
        (RoomOf(x.id) = RoomOf(r.id) /\ x.id # r.id) => r.content < x.content

\* the position in the stream a stored token stands for
Position(token) == IF token = NoToken THEN 0 ELSE 1

\* C21: the persisted checkpoint token only moves forward: each overwrite
\* stores a stream position newer than the one it replaces, and the token is
\* removed or moved back only by resetSync().
C21_TokenMovesForward ==
    [][/\ lastStep' = "saveSyncToken" => Position(storedToken') > Position(storedToken)
       /\ Position(storedToken') < Position(storedToken) => resetPc' = "errors"]_vars

\* C22: after a start() with no stored checkpoint and at least one successful
\* stream response, a checkpoint is persisted at the latest when stop()
\* resolves, so that the next start() finds a token.
C22_CheckpointCreated ==
    [][(stopPc # "done" /\ stopPc' = "done" /\ responded /\ listeners = 0)
          => storedToken' # NoToken]_vars

\* C23: in every execution, including repeated start(), resumeSync() and
\* resetSync() calls, no live listener is registered while a full backfill is
\* in progress.
C23_BackfillBeforeListeners ==
    \A i \in 1..MaxStarts : startPc[i] = "backfill" => listeners = 0

\* the keys held by the four lanes
LaneKeys == MapKeys(queue) \cup MapKeys(processing) \cup MapKeys(retrying) \cup MapKeys(failed)

\* C24: no buffered work is lost on shutdown: when stop() has resolved no
\* timeline handler that accepted an event before stop() is still waiting for
\* its decryption, and no item is added to any lane after the drain has
\* finished.
C24_NothingLostOnStop ==
    [][/\ (stopPc' = "done" /\ listeners' = 0) => handlers' = {}
       /\ (stopPc = "done" /\ listeners = 0) => LaneKeys' \subseteq LaneKeys]_vars

\* C25: for each error whose text has the decryption/crypto signature, on
\* every path that reports it, the state becomes error, key recovery is
\* invoked exactly once, and the stream is retried at most once and only
\* after that recovery; no recovery or retry happens without such an error.
C25_RecoveryOncePerError ==
    [][/\ cryptoErrors' = cryptoErrors + 1 =>
            /\ syncState' = "error"
            /\ recoveries' = recoveries + 1
            /\ errorRetries' \in {errorRetries, errorRetries + 1}
       /\ cryptoErrors' = cryptoErrors =>
            /\ recoveries' = recoveries
            /\ errorRetries' = errorRetries]_vars

\* C26: after an error whose text has no decryption/crypto signature the
\* state stays error until resumeSync or resetSync is called (no stream
\* lifecycle event changes it; stop() and forceSync() are calls from outside
\* as well), and a resumeSync call made in that state restarts the sync.
C26_ErrorIsTerminal ==
    [][/\ (/\ syncState = "error" /\ ~isCryptoError(syncError)
           /\ resumePc' = "idle" /\ resetPc' = "idle"
           /\ stops' = stops /\ lastStep' # "forceSync") => syncState' = "error"
       /\ (syncState = "error" /\ ~isCryptoError(syncError)) => lastStep' # "resumeSync_skipped"]_vars

\* the sync states of the specification
SyncStates == {"initializing", "syncing", "synced", "error", "stopped"}

\* C27: the sync state is always one of initializing, syncing, synced,
\* error, stopped; it is initializing before any call, and it is stopped only
\* after an explicit stop() call.
C27_SyncStateMachine ==
    /\ syncState \in SyncStates
    /\ (\A i \in 1..MaxStarts : startPc[i] = "idle") /\ stops = 0 => syncState = "initializing"
    /\ syncState = "stopped" => stops > 0

\* C28: after resetSync() has completed the checkpoint stored before the
\* reset is gone, no item that was pending or processing before the reset is
\* in a lane or with a processor, the error log holds no entry from before
\* the reset, and a full backfill has run after the clears.
C28_ResetStartsFresh ==
    ResetResolved =>
        /\ storedToken = NoToken
        /\ stopItems \cap LaneKeys = {}
        /\ \A item \in InFlight : getItemKey(item) \notin stopItems
        /\ resetLog \cap syncErrors = {}
        /\ \A i \in 1..MaxStarts : owner[i] = "reset" => \A r \in Rooms : phase[i][r] = "done"

\* C29: start() called while the crypto manager is not ready fails with an
\* error and writes no Room, Participant or Message row, registers no
\* listener, starts neither the stream nor a processing loop, and triggers no
\* key recovery and no retry.
C29_StartFailsFast ==
    ~cryptoInitialized =>
        /\ startPc[1] \in {"idle", "failed"}
        /\ startPc[1] = "failed" =>
              /\ syncState = "error"
              /\ startErr[1] = "Crypto manager must be initialized before starting sync"
        /\ \A r \in Rooms : roomUpserts[r] = 0 /\ participantUpserts[r] = 0
        /\ messages = {}
        /\ listeners = 0 /\ syncCalls = 0 /\ ~streaming
        /\ ~processingQueue /\ \A w \in Workers : pc[w] = "idle"
        /\ recoveries = 0 /\ errorRetries = 0

C29_StartRejected == ~cryptoInitialized /\ startPc[1] = "failed" /\ owner[1] = "api"

\* C30: if persisting the checkpoint fails during stop(), stop() rejects
\* with that error (it does not go on to resolve), and the write is not
\* attempted again.
C30_SaveFailurePropagates ==
    [][lastStep' = "saveSyncToken_failed" => stopPc' = "failed"]_vars

\* ids of the events held anywhere between the handler and the store
EventsHeld ==
    {k[1] : k \in LaneKeys} \cup {hd.id : hd \in handlers} \cup {item.id : item \in InFlight}
        \cup {row.id : row \in messages} \cup syncErrors

\* C31: an event that was delivered only as a paginated (start-of-timeline)
\* delivery or without a room is in no lane, in no handler or batch, and in no
\* table: only forward live deliveries reach the queue and the store.
C31_OnlyLiveDeliveries == \A e \in EventIds : deliveries[e] = 0 => e \notin EventsHeld

C31_PaginatedSkipped ==
    /\ lastStep \in {"paginated", "no_room"}
    /\ \E e \in EventIds : deliveries[e] > 0 /\ e \in EventsHeld
    /\ \E e \in EventIds : deliveries[e] = 0

\* the last step was a recoverKeys call that found no backup, or a
\* passphrase-based backup while no passphrase was passed
NoBackupCase(call) == call.lookup.found \in {"null", "no_info"}
PassphraseMissingCase(call) ==
    call.lookup.found = "backup" /\ isPassphraseBackup(call.lookup)
        /\ call.passphrase \in {"undefined", ""}

\* nothing is restored and nothing recorded by the step
NoRestore == recoverCall'.restore = <<>> /\ restores' = restores /\ backupStatus' = backupStatus

\* C32 as stated: recoverKeys fails with the no-backup error when the lookup
\* finds no backup and with the passphrase-required error when the backup is
\* passphrase-based and no passphrase is passed; nothing is restored and the
\* recorded backup status stays as it was.
C32_RecoverKeysFails ==
    [][recoverCalls' = recoverCalls + 1 =>
          /\ NoBackupCase(recoverCall') => recoverCall'.error = "NO_BACKUP_FOUND" /\ NoRestore
          /\ PassphraseMissingCase(recoverCall') =>
                 recoverCall'.error = "PASSPHRASE_REQUIRED" /\ NoRestore]_vars

\* C32: with the crypto module initialized, recoverKeys fails with the
\* no-backup error when the lookup finds no backup and with the
\* passphrase-required error when the backup is passphrase-based and no
\* passphrase is passed; without it, recoverKeys fails with the not-initialized
\* error.  In each of these cases nothing is restored and the recorded backup
\* status stays as it was.
C32_RecoverKeysFailsInitialized ==
    [][(recoverCalls' = recoverCalls + 1
            /\ (NoBackupCase(recoverCall') \/ PassphraseMissingCase(recoverCall'))) =>
          /\ NoRestore
          /\ recoverCall'.error =
                 IF ~recoverCall'.crypto THEN "CRYPTO_NOT_INITIALIZED"
                 ELSE IF NoBackupCase(recoverCall') THEN "NO_BACKUP_FOUND"
                 ELSE "PASSPHRASE_REQUIRED"]_vars

C32_RefusedAfterRecovery ==
    /\ recoverCall.error = "PASSPHRASE_REQUIRED"
    /\ recoverCall.passphrase = ""
    /\ backupStatus.enabled
    /\ restores # <<>>

\* C33: a recoverKeys call that finds a backup restores with the passphrase
\* exactly when the auth data is passphrase-based, attempts the restore from
\* secret storage in every other case, and records the backup as enabled when
\* it resolves.
C33_RestorePath ==
    (recoverCall.error # "none" /\ recoverCall.crypto /\ recoverCall.lookup.found = "backup") =>
        /\ recoverCall.restore = <<"passphrase">> <=>
               (isPassphraseBackup(recoverCall.lookup) /\ given(recoverCall.passphrase))
        /\ (~isPassphraseBackup(recoverCall.lookup) /\ recoverCall.enableOk) =>
               recoverCall.restore = <<"secret_storage">>
        /\ recoverCall.error = "" => backupStatus.enabled

\* the number of items in each lane
LaneCounts ==
    [pending |-> Cardinality(MapKeys(queue)), processing |-> Cardinality(MapKeys(processing)),
     failed |-> Cardinality(MapKeys(failed)), retrying |-> Cardinality(MapKeys(retrying))]

\* C34: in every reachable state the counts returned by getStatus() and the
\* queue counts reported by getSyncStatus() are the numbers of items in the
\* pending, processing, failed and retrying lanes.
C34_StatusCounts == getStatus(MQ) = LaneCounts /\ queueStatus(MQ) = LaneCounts

\* C35: an exception thrown while a batch is processed does not end the
\* processor loop: from then on every item in the pending lane is dequeued, and
\* every batch the loop holds is processed, unless stop() is called; and the
\* loop ends only after stop() was called.
C35_LoopSurvivesException ==
    /\ \A w \in Procs :
          [](pc[w] = "backoff" =>
                /\ [](queue # <<>> => <>(queue = <<>> \/ stops > 0))
                /\ [](pc[w] = "work" => <>(WorkFinished(w) \/ pc[w] # "work" \/ stops > 0)))
    /\ [][\A w \in Procs : (pc[w] # "idle" /\ pc'[w] = "idle") => stops' > 0]_vars

\* an item is being processed whose batch was dequeued after the batch of
\* another item had thrown
C35_DequeuedAfterException ==
    \E w \in Procs :
        /\ pc[w] = "work" /\ (msgs[w] # <<>> \/ errs[w] # <<>>) /\ stops = 0
        /\ \E k \in MapKeys(processing) :
              /\ k \notin SeqKeys(msgs[w]) \cup SeqKeys(errs[w])
              /\ \A row \in messages : row.id # k[1]
              /\ k[1] \notin syncErrors

\* the lanes that hold key k
LanesOf(k) ==
    {lane \in {"pending", "processing", "retrying", "failed"} :
        CASE lane = "pending" -> MapHas(queue, k)
          [] lane = "processing" -> MapHas(processing, k)
          [] lane = "retrying" -> MapHas(retrying, k)
          [] OTHER -> MapHas(failed, k)}

\* C36: in every reachable state a key is in at most one of the pending,
\* processing, retrying and failed lanes.
C36_OneLanePerKey == \A k \in LaneKeys : Cardinality(LanesOf(k)) <= 1

\* C37: an item is in the processing lane only while a batch that holds it
\* is being processed: once its batch has been written, requeued or logged it
\* has left the lane, so with no work outstanding the lane is empty.
C37_ProcessingLaneReleased ==
    \A k \in MapKeys(processing) : \E item \in InFlight : getItemKey(item) = k

\* the steps that are calls adding items: enqueue, requeue and retryFailed
EnqueueSteps == {"enqueue", "enqueue_inflight", "requeue", "retryFailed"}

\* C38: when clear() has returned the four lanes are empty, and a following
\* step that is not an enqueue leaves them empty: a backoff timer scheduled
\* before the clear puts nothing back.
C38_ClearedStaysEmpty ==
    [][lastStep = "clear" =>
          /\ LaneKeys = {}
          /\ lastStep' \notin EnqueueSteps => LaneKeys' = {}]_vars

\* the loops of startMessageQueueProcessor that have not returned
RunningLoops == {w \in Procs : pc[w] # "idle"}

\* C39: at most one processor loop is running at any time.
C39_SingleLoop == Cardinality(RunningLoops) <= 1

\* C40: when a resumeSync() that found a stored token completes, after a
\* sync that was started and stopped, the listeners are registered and a
\* processor loop is running, so that timeline events are ingested again.
C40_ResumeIngests ==
    [][(resumePc = "sync" /\ resumePc' = "done" /\ startPc[1] = "done" /\ stopPc = "done") =>
          listeners' > 0 /\ RunningLoops' # {}]_vars

====
